---- MODULE Spec2Model ----
(***************************************************************************)
(* The launch list controller (the useLaunches hook), the launch client    *)
(* it calls (api.fetchLaunches) and the part of the list screen that       *)
(* drives them; the launchpad cache, the search box and the map card.      *)
(*                                                                         *)
(* Strings that the code inspects (launch names, search terms) are         *)
(* sequences of one-character strings; a launch is its id, 1..NumLaunches. *)
(***************************************************************************)
EXTENDS Integers, Sequences, FiniteSets, TLC

(* ------------------------------ bounds --------------------------------- *)

\* Launches held by the remote API.
NumLaunches == 38

\* Controller operations the screen starts in one run (the initial load included).
MaxCalls == 4

\* Fetches in flight at the same time.
MaxInFlight == 2

(* ------------------------- program constants --------------------------- *)

\* The page size useLaunches passes to api.fetchLaunches.
Limit == 20

NoError == "null"
ApiUnavailable == "SpaceX API is currently unavailable. Please try again later."
FetchFailed == "Failed to fetch launches. Please check your internet connection and try again."

\* The message api.fetchLaunchpad's Error starts with.
LaunchpadError == "Failed to fetch launchpad details: "

(* ------------------------------ strings -------------------------------- *)

Lower(c) ==
    CASE c = "S" -> "s"
      [] c = "L" -> "l"
      [] c = "C" -> "c"
      [] c = "R" -> "r"
      [] OTHER -> c

ToLowerCase(s) == [i \in 1..Len(s) |-> Lower(s[i])]

RECURSIVE TrimStart(_)
TrimStart(s) == IF s # <<>> /\ Head(s) = " " THEN TrimStart(Tail(s)) ELSE s

RECURSIVE TrimEnd(_)
TrimEnd(s) ==
    IF s # <<>> /\ s[Len(s)] = " " THEN TrimEnd(SubSeq(s, 1, Len(s) - 1)) ELSE s

Trim(s) == TrimEnd(TrimStart(s))

\* String.prototype.includes: t occurs in s as a contiguous substring.
Includes(s, t) ==
    \E k \in 0..(Len(s) - Len(t)) : SubSeq(s, k + 1, k + Len(t)) = t

\* Array.prototype.slice(start, end) for 0 <= start <= end, 0-based, end exclusive.
Slice(s, start, end) ==
    SubSeq(s, start + 1, IF end < Len(s) THEN end ELSE Len(s))

(* ----------------------------- remote API ------------------------------ *)

\* launch.name of launch id.
Name(id) == IF id % 5 = 0 THEN <<"C", "r", "s">> ELSE <<"S", "l">>

\* The search terms the screen submits (trimmed, non-empty).
Terms == { <<"s", "L">>, <<"c">> }

\* GET /v5/launches: every launch, in the API's stored order.
SimpleList == [i \in 1..NumLaunches |-> i]

\* The launches sorted by date_utc as the paged endpoints return them.
SortedList == [i \in 1..NumLaunches |-> NumLaunches + 1 - i]

\* POST /v5/launches/query {name: {$regex: term, $options: "i"}}, {limit, page: 1}:
\* the first `limit` launches, in sorted order, whose name matches term.
QueryDocs(term, limit) ==
    LET matches(id) == Includes(ToLowerCase(Name(id)), ToLowerCase(term))
    IN  Slice(SelectSeq(SortedList, matches), 0, limit)

\* GET /v5/launches?limit=&page=&sort=date_utc
ListDocs(limit, page) == Slice(SortedList, (page - 1) * limit, page * limit)

(* --------------------------- api.fetchLaunches ------------------------- *)

\* `query && query.trim()`: the call takes the search branch.
IsSearch(query) == query # <<>> /\ Trim(query) # <<>>

\* Math.ceil(n / limit) for n >= 0, limit > 0.
CeilDiv(n, limit) == (n + limit - 1) \div limit

PrimaryResult_nonEmpty(page, limit, query, body) ==
    LET startIndex == (page - 1) * limit
        endIndex == startIndex + limit
        launches == IF IsSearch(query) THEN Slice(body, startIndex, endIndex) ELSE body
    IN  [docs |-> launches,
         hasNextPage |-> Len(launches) > 0,
         page |-> page,
         totalDocs |-> Len(launches),
         totalPages |-> CeilDiv(Len(launches), limit)]

PrimaryResult_windowFromPage(page, limit, query, body) ==
    LET startIndex == page * limit
        endIndex == startIndex + limit
        launches == IF IsSearch(query) THEN Slice(body, startIndex, endIndex) ELSE body
    IN  [docs |-> launches,
         hasNextPage |-> Len(launches) = limit,
         page |-> page,
         totalDocs |-> Len(launches),
         totalPages |-> CeilDiv(Len(launches), limit)]

\* What fetchLaunches returns when its primary request answered 2xx with `body`
\* (searchResult.docs on the search branch, the array itself otherwise).
PrimaryResult(page, limit, query, body) ==
    LET startIndex == (page - 1) * limit
        endIndex == startIndex + limit
        launches == IF IsSearch(query) THEN Slice(body, startIndex, endIndex) ELSE body
    IN  [docs |-> launches,
         hasNextPage |-> Len(launches) = limit,
         page |-> page,
         totalDocs |-> Len(launches),
         totalPages |-> CeilDiv(Len(launches), limit)]

FallbackResult_atLeast(page, limit, query, fallbackLaunches) ==
    LET searchTerm == ToLowerCase(Trim(query))
        matches(id) == Includes(ToLowerCase(Name(id)), searchTerm)
        filteredLaunches ==
            IF IsSearch(query) THEN SelectSeq(fallbackLaunches, matches)
            ELSE fallbackLaunches
        startIndex == (page - 1) * limit
        endIndex == startIndex + limit
    IN  [docs |-> Slice(filteredLaunches, startIndex, endIndex),
         hasNextPage |-> Len(filteredLaunches) >= endIndex,
         page |-> page,
         totalDocs |-> Len(filteredLaunches),
         totalPages |-> CeilDiv(Len(filteredLaunches), limit)]

FallbackResult_caseSensitive(page, limit, query, fallbackLaunches) ==
    LET searchTerm == ToLowerCase(Trim(query))
        matches(id) == Includes(Name(id), searchTerm)
        filteredLaunches ==
            IF IsSearch(query) THEN SelectSeq(fallbackLaunches, matches)
            ELSE fallbackLaunches
        startIndex == (page - 1) * limit
        endIndex == startIndex + limit
    IN  [docs |-> Slice(filteredLaunches, startIndex, endIndex),
         hasNextPage |-> Len(filteredLaunches) > endIndex,
         page |-> page,
         totalDocs |-> Len(filteredLaunches),
         totalPages |-> CeilDiv(Len(filteredLaunches), limit)]

\* What fetchLaunches returns when the primary request failed and
\* fetchLaunchesSimple resolved with `fallbackLaunches`.
FallbackResult(page, limit, query, fallbackLaunches) ==
    LET searchTerm == ToLowerCase(Trim(query))
        matches(id) == Includes(ToLowerCase(Name(id)), searchTerm)
        filteredLaunches ==
            IF IsSearch(query) THEN SelectSeq(fallbackLaunches, matches)
            ELSE fallbackLaunches
        startIndex == (page - 1) * limit
        endIndex == startIndex + limit
    IN  [docs |-> Slice(filteredLaunches, startIndex, endIndex),
         hasNextPage |-> Len(filteredLaunches) > endIndex,
         page |-> page,
         totalDocs |-> Len(filteredLaunches),
         totalPages |-> CeilDiv(Len(filteredLaunches), limit)]

\* What fetchLaunches returns when its primary request succeeds, the remote API
\* honouring limit and page.
fetchLaunchesPrimary(page, limit, query) ==
    PrimaryResult(page, limit, query,
                  IF IsSearch(query) THEN QueryDocs(Trim(query), limit * 2)
                  ELSE ListDocs(limit, page))

\* What fetchLaunches returns when the primary request fails and
\* fetchLaunchesSimple succeeds.
fetchLaunchesFallback(page, limit, query) ==
    FallbackResult(page, limit, query, SimpleList)

(* ------------------------------- state --------------------------------- *)

VARIABLES
    launches,     \* useState<Launch[]>([])
    loading,      \* useState(true)
    error,        \* useState<string | null>(null)
    hasNextPage,  \* useState(false)
    currentPage,  \* useState(1)
    searchQuery,  \* useState('')
    refreshing,   \* useState(false)
    view,         \* the state values of the last render, which the callbacks close over
    inflight,     \* the fetchPage calls awaiting api.fetchLaunches, oldest first
    calls,        \* operations started so far
    lastCall,     \* history: the last operation started and the fetches in flight then
    api,          \* one call of the launch client, request by request (SpecClient)
    pads,         \* the launchpad cache and the useLaunchpad hooks (SpecPad)
    screen,       \* the search box of LaunchListScreen and its debounce timer (SpecScreen)
    card          \* one MapCard: its props, the device location, what it computed and opened (SpecMap)

hook == <<launches, loading, error, hasNextPage, currentPage, searchQuery, refreshing>>
vars == <<launches, loading, error, hasNextPage, currentPage, searchQuery, refreshing,
          view, inflight, calls, lastCall, api, pads, screen, card>>

\* The parts of the state a specification does not run stay as they are.
NoClient == [fn |-> "none"]
NoPads == [cache |-> <<>>]
NoScreen == [mounted |-> FALSE]
NoCard == [mounted |-> FALSE]

InitHook ==
    /\ launches = <<>>
    /\ loading = TRUE
    /\ error = NoError
    /\ hasNextPage = FALSE
    /\ currentPage = 1
    /\ searchQuery = <<>>
    /\ refreshing = FALSE
    /\ view = [hasNextPage |-> FALSE, loading |-> TRUE, currentPage |-> 1,
               searchQuery |-> <<>>]
    /\ inflight = <<>>
    /\ calls = 0
    /\ lastCall = [op |-> "none", during |-> <<>>, before |-> <<>>]

Init ==
    /\ InitHook
    /\ api = NoClient
    /\ pads = NoPads
    /\ screen = NoScreen
    /\ card = NoCard

(* ------------------------------ fetchPage ------------------------------ *)

\* s without its i-th element.
RemoveAt(s, i) == SubSeq(s, 1, i - 1) \o SubSeq(s, i + 1, Len(s))

\* fetchPage up to its await: setLoading(true), setError(null) and the call of
\* api.fetchLaunches(page, 20, query), which issues the primary request.
fetchPageCall(page, query, origin) ==
    /\ loading' = TRUE
    /\ error' = NoError
    /\ inflight' = Append(inflight,
                          [page |-> page, query |-> query, origin |-> origin,
                           peerApplied |-> FALSE])

\* The operation `op` starts: history only. `during` lists the origins of the
\* fetches in flight at that moment; a loadNextPage also records the list state
\* it starts from.
Started(op) ==
    /\ calls' = calls + 1
    /\ lastCall' = [op |-> op,
                    during |-> [k \in 1..Len(inflight) |-> inflight[k].origin],
                    before |-> IF op = "loadNextPage"
                               THEN <<launches, currentPage, hasNextPage>>
                               ELSE <<>>]

\* refresh's continuation after `await fetchPage(...)`: setRefreshing(false).
AfterFetchPage(origin) ==
    refreshing' = IF origin = "refresh" THEN FALSE ELSE refreshing

\* The i-th fetch leaves; the fetches that were in flight beside it remember
\* whether its response was applied to launches (history).
Leave(i, applied) ==
    inflight' = RemoveAt([k \in 1..Len(inflight) |->
                            [inflight[k] EXCEPT !.peerApplied = @ \/ applied]], i)

\* fetchPage after api.fetchLaunches resolved with `response`.
fetchPageResolved(i, response) ==
    LET f == inflight[i] IN
    /\ launches' = IF f.page = 1 THEN response.docs ELSE launches \o response.docs
    /\ hasNextPage' = response.hasNextPage
    /\ currentPage' = f.page
    /\ loading' = FALSE
    /\ AfterFetchPage(f.origin)
    /\ Leave(i, TRUE)
    /\ UNCHANGED <<error, searchQuery, view, calls, lastCall, api, pads, screen, card>>

\* fetchPage whose catch branch also drops the list.
fetchPageRejected_dropsList(i, message) ==
    LET f == inflight[i] IN
    /\ error' = message
    /\ launches' = <<>>
    /\ loading' = FALSE
    /\ AfterFetchPage(f.origin)
    /\ Leave(i, FALSE)
    /\ UNCHANGED <<hasNextPage, currentPage, searchQuery, view, calls, lastCall, api, pads, screen, card>>

\* fetchPage after api.fetchLaunches rejected with an Error carrying `message`.
fetchPageRejected(i, message) ==
    LET f == inflight[i] IN
    /\ error' = message
    /\ loading' = FALSE
    /\ AfterFetchPage(f.origin)
    /\ Leave(i, FALSE)
    /\ UNCHANGED <<launches, hasNextPage, currentPage, searchQuery, view, calls, lastCall, api, pads, screen, card>>

(* ---------------------- api.fetchLaunches settles ---------------------- *)

\* The primary request (search POST or list GET) of the i-th fetch answers 2xx.
PrimarySucceeds(i) ==
    fetchPageResolved(i, fetchLaunchesPrimary(inflight[i].page, Limit, inflight[i].query))

\* The primary request fails and fetchLaunchesSimple answers 2xx.
FallbackSucceeds(i) ==
    fetchPageResolved(i, fetchLaunchesFallback(inflight[i].page, Limit, inflight[i].query))

\* The primary request and fetchLaunchesSimple fail, checkApiHealth returns
\* isApiHealthy, and fetchLaunches throws.
AllFail(i, isApiHealthy) ==
    fetchPageRejected(i, IF isApiHealthy THEN FetchFailed ELSE ApiUnavailable)

(* ----------------------------- operations ------------------------------ *)

\* A render: the callbacks are re-created over the current state.
Render ==
    /\ view' = [hasNextPage |-> hasNextPage, loading |-> loading,
                currentPage |-> currentPage, searchQuery |-> searchQuery]
    /\ view' # view
    /\ UNCHANGED <<hook, inflight, calls, lastCall, api, pads, screen, card>>

\* The mount effect: fetchPage(1).
InitialLoad ==
    /\ calls = 0
    /\ fetchPageCall(1, <<>>, "initial")
    /\ Started("initial")
    /\ UNCHANGED <<launches, hasNextPage, currentPage, searchQuery, refreshing, view, api, pads, screen, card>>

refresh ==
    /\ calls \in 1..(MaxCalls - 1)
    /\ Len(inflight) < MaxInFlight
    /\ refreshing' = TRUE
    /\ fetchPageCall(1, view.searchQuery, "refresh")
    /\ Started("refresh")
    /\ UNCHANGED <<launches, hasNextPage, currentPage, searchQuery, view, api, pads, screen, card>>

loadNextPage ==
    /\ calls \in 1..(MaxCalls - 1)
    /\ Len(inflight) < MaxInFlight
    /\ IF view.hasNextPage /\ ~view.loading
       THEN /\ fetchPageCall(view.currentPage + 1, view.searchQuery, "loadNextPage")
            /\ Started("loadNextPage")
            /\ UNCHANGED <<launches, hasNextPage, currentPage, searchQuery, refreshing, view, api, pads, screen, card>>
       ELSE UNCHANGED vars

\* search that keeps the accumulated list while the new term loads.
search_keepsList(query) ==
    /\ calls \in 1..(MaxCalls - 1)
    /\ Len(inflight) < MaxInFlight
    /\ searchQuery' = query
    /\ currentPage' = 1
    /\ hasNextPage' = FALSE
    /\ fetchPageCall(1, query, "search")
    /\ Started("search")
    /\ UNCHANGED <<launches, refreshing, view, api, pads, screen, card>>

search(query) ==
    /\ calls \in 1..(MaxCalls - 1)
    /\ Len(inflight) < MaxInFlight
    /\ searchQuery' = query
    /\ launches' = <<>>
    /\ currentPage' = 1
    /\ hasNextPage' = FALSE
    /\ fetchPageCall(1, query, "search")
    /\ Started("search")
    /\ UNCHANGED <<refreshing, view, api, pads, screen, card>>

reset ==
    /\ calls \in 1..(MaxCalls - 1)
    /\ Len(inflight) < MaxInFlight
    /\ launches' = <<>>
    /\ currentPage' = 1
    /\ hasNextPage' = FALSE
    /\ fetchPageCall(1, <<>>, "reset")
    /\ Started("reset")
    /\ UNCHANGED <<searchQuery, refreshing, view, api, pads, screen, card>>

\* The list's onEndReached handler.
handleLoadMore ==
    IF view.hasNextPage /\ ~view.loading THEN loadNextPage ELSE UNCHANGED vars

Next ==
    \/ InitialLoad
    \/ Render
    \/ refresh
    \/ loadNextPage
    \/ handleLoadMore
    \/ \E query \in Terms : search(query)
    \/ reset
    \/ \E i \in 1..Len(inflight) : PrimarySucceeds(i)
    \/ \E i \in 1..Len(inflight) : FallbackSucceeds(i)
    \/ \E i \in 1..Len(inflight), isApiHealthy \in BOOLEAN : AllFail(i, isApiHealthy)

Spec == Init /\ [][Next]_vars

(* ---------------- the launch client, request by request ---------------- *)

\* The largest page a caller asks the client for.
MaxPage == 3

\* The remote API's launchpad records change over time: the revisions a
\* response may hold.
MaxRev == 2

\* The page sizes a caller asks for.
Limits == {2, 10, Limit}

\* The query arguments a caller passes.
ClientQueries == { <<>>, <<" ">>, <<"s", "L">>, <<" ", "c", " ">>, <<"x">> }

\* How a request can fail: a non-2xx status, the timeout timer aborting it, the
\* transport rejecting, or a 2xx whose body response.json() cannot parse.
ProbeFailures == {"status", "timeout", "transport"}
Failures == ProbeFailures \cup {"parse"}

\* The bodies the remote API may answer a 2xx with: it honours limit and page,
\* or it ignores them and returns everything that matches.
QueryBodies(term, limit) == { QueryDocs(term, limit), QueryDocs(term, NumLaunches) }
ListBodies(limit, page) == { ListDocs(limit, page), SortedList }
SimpleBodies == { SimpleList, Slice(SimpleList, 0, 5) }

\* A request handed to fetchWithTimeout, not answered yet.
Send(endpoint, limit, page, term) ==
    [endpoint |-> endpoint, limit |-> limit, page |-> page, term |-> term,
     outcome |-> "pending", body |-> <<>>]

\* The newest request is answered.
Answered(a, outcome, body) ==
    [a EXCEPT !.requests[Len(a.requests)].outcome = outcome,
              !.requests[Len(a.requests)].body = body]

\* The Error a failed request raises, as the parts of its message.
RequestError(endpoint, kind) ==
    CASE kind = "timeout" -> <<"Request timeout - please check your internet connection">>
      [] kind = "status" /\ endpoint = "query" -> <<"Search request failed: ", "status">>
      [] kind = "status" -> <<"HTTP error! status: ", "status">>
      [] kind = "transport" -> <<"Network request failed">>
      [] OTHER -> <<"JSON Parse error">>

\* The Error fetchLaunchesSimple throws whatever made its request fail.
SimpleError ==
    <<"Failed to fetch launches from SpaceX API. Please check your internet connection and try again.">>

checkApiHealth_ignoresStatus(outcome) ==
    CASE outcome = "ok" -> TRUE
      [] outcome = "status" -> TRUE
      [] OTHER -> FALSE

\* checkApiHealth's return value for the outcome of its probe request.
checkApiHealth(outcome) ==
    CASE outcome = "ok" -> TRUE         \* response.ok of a 2xx
      [] outcome = "status" -> FALSE    \* response.ok of any other status
      [] OTHER -> FALSE                 \* catch: return false

\* The primary request of fetchLaunches for these arguments.
PrimaryRequest(page, limit, query) ==
    IF IsSearch(query) THEN Send("query", limit * 2, 1, Trim(query))
    ELSE Send("list", limit, page, <<>>)

\* fetchLaunches resolves with `value`.
Returns(a, value) ==
    [a EXCEPT !.pc = "done", !.result = [kind |-> "page", value |-> value]]

\* fetchLaunches rejects with an Error of message `message`.
Throws(a, message) ==
    [a EXCEPT !.pc = "done", !.result = [kind |-> "error", message |-> message]]

\* catch (error): the fallback, this.fetchLaunchesSimple(), is tried.
fetchLaunchesCatch_rethrows(a, e) ==
    Throws([a EXCEPT !.caught = Append(@, e)], e)

fetchLaunchesCatch(a, e) ==
    [a EXCEPT !.caught = Append(@, e),
              !.requests = Append(@, Send("simple", 0, 0, <<>>)),
              !.pc = "fallback"]

\* catch (fallbackError): this.checkApiHealth() is awaited.
fetchLaunchesFallbackCatch_noProbe(a, e) ==
    Throws([a EXCEPT !.caught = Append(@, e)], <<FetchFailed>>)

fetchLaunchesFallbackCatch(a, e) ==
    [a EXCEPT !.caught = Append(@, e),
              !.requests = Append(@, Send("health", 1, 0, <<>>)),
              !.pc = "probe"]

\* After `await this.checkApiHealth()` in the fallback's catch.
fetchLaunchesAfterProbe_retryOnce(a, isApiHealthy) ==
    IF Len(a.requests) < 6
    THEN [a EXCEPT !.pc = "primary",
                   !.requests = Append(@, PrimaryRequest(a.page, a.limit, a.query))]
    ELSE IF ~isApiHealthy THEN Throws(a, <<ApiUnavailable>>) ELSE Throws(a, <<FetchFailed>>)

fetchLaunchesAfterProbe(a, isApiHealthy) ==
    IF ~isApiHealthy THEN Throws(a, <<ApiUnavailable>>) ELSE Throws(a, <<FetchFailed>>)

\* A caller calls api.fetchLaunches or api.checkApiHealth: the function runs to
\* its first await, which issues its first request.
ClientCall ==
    /\ api.pc = "start"
    /\ api' = CASE api.fn = "fetchLaunches" ->
                   [api EXCEPT !.pc = "primary",
                               !.requests = <<PrimaryRequest(api.page, api.limit, api.query)>>]
                [] api.fn = "checkApiHealth" ->
                   [api EXCEPT !.pc = "probe",
                               !.requests = <<Send("health", 1, 0, <<>>)>>]
                [] api.fn = "fetchLaunchpad" ->
                   [api EXCEPT !.pc = "launchpad",
                               !.requests = <<Send("launchpad", 0, 0, <<api.id>>)>>]
                [] OTHER ->
                   [api EXCEPT !.pc = "fetch",
                               !.timer = "armed",
                               !.requests = <<Send("any", 0, 0, <<>>)>>]
    /\ UNCHANGED <<hook, view, inflight, calls, lastCall, pads, screen, card>>

\* The primary request answers 2xx with a body that parses.
PrimaryAnswers ==
    /\ api.pc = "primary"
    /\ \E body \in IF IsSearch(api.query)
                    THEN QueryBodies(Trim(api.query), api.limit * 2)
                    ELSE ListBodies(api.limit, api.page) :
          api' = Returns(Answered(api, "ok", body),
                         PrimaryResult(api.page, api.limit, api.query, body))
    /\ UNCHANGED <<hook, view, inflight, calls, lastCall, pads, screen, card>>

\* The primary request fails.
PrimaryFails(kind) ==
    /\ api.pc = "primary"
    /\ api' = fetchLaunchesCatch(Answered(api, kind, <<>>),
                                 RequestError(api.requests[1].endpoint, kind))
    /\ UNCHANGED <<hook, view, inflight, calls, lastCall, pads, screen, card>>

\* fetchLaunchesSimple's request answers 2xx with a body that parses.
FallbackAnswers(body) ==
    /\ api.pc = "fallback"
    /\ body \in SimpleBodies
    /\ api' = Returns(Answered(api, "ok", body),
                      FallbackResult(api.page, api.limit, api.query, body))
    /\ UNCHANGED <<hook, view, inflight, calls, lastCall, pads, screen, card>>

\* fetchLaunchesSimple's request fails.
FallbackFails(kind) ==
    /\ api.pc = "fallback"
    /\ api' = fetchLaunchesFallbackCatch(Answered(api, kind, <<>>), SimpleError)
    /\ UNCHANGED <<hook, view, inflight, calls, lastCall, pads, screen, card>>

\* The health probe settles; checkApiHealth returns.
ProbeSettles(outcome) ==
    /\ api.pc = "probe"
    /\ LET a == Answered(api, outcome, <<>>)
           isApiHealthy == checkApiHealth(outcome)
       IN  api' = IF api.fn = "checkApiHealth"
                  THEN [a EXCEPT !.pc = "done",
                                 !.result = [kind |-> "boolean", value |-> isApiHealthy]]
                  ELSE fetchLaunchesAfterProbe(a, isApiHealthy)
    /\ UNCHANGED <<hook, view, inflight, calls, lastCall, pads, screen, card>>

\* catch of api.fetchLaunchpad: the error is wrapped and thrown; no fallback.
fetchLaunchpadCatch_dropsCause(a, e) ==
    Throws([a EXCEPT !.caught = Append(@, e)], <<LaunchpadError, "Unknown error">>)

fetchLaunchpadCatch(a, e) ==
    Throws([a EXCEPT !.caught = Append(@, e)], <<LaunchpadError>> \o e)

\* The request of api.fetchLaunchpad answers 2xx with revision `rev` of the record.
LaunchpadAnswers(rev) ==
    /\ api.pc = "launchpad"
    /\ api' = [Answered(api, "ok", <<rev>>) EXCEPT
                  !.pc = "done",
                  !.result = [kind |-> "record", value |-> [id |-> api.id, rev |-> rev]]]
    /\ UNCHANGED <<hook, view, inflight, calls, lastCall, pads, screen, card>>

\* The request of api.fetchLaunchpad fails.
LaunchpadFails(kind) ==
    /\ api.pc = "launchpad"
    /\ api' = fetchLaunchpadCatch(Answered(api, kind, <<>>), RequestError("launchpad", kind))
    /\ UNCHANGED <<hook, view, inflight, calls, lastCall, pads, screen, card>>

\* catch of fetchWithTimeout: clearTimeout; an AbortError becomes the timeout
\* Error, any other error is rethrown as it is.
fetchWithTimeoutCatch_allTimeouts(a, err) ==
    Throws([a EXCEPT !.timer = IF @ = "armed" THEN "cleared" ELSE @],
           RequestError("any", "timeout"))

fetchWithTimeoutCatch(a, err) ==
    Throws([a EXCEPT !.timer = IF @ = "armed" THEN "cleared" ELSE @],
           IF err.name = "AbortError" THEN RequestError("any", "timeout")
           ELSE err.message)

\* The timer set by fetchWithTimeout fires: controller.abort(); a fetch that is
\* still pending rejects with an AbortError.
TimerFires ==
    /\ api.timer = "armed"
    /\ api' = IF api.pc = "fetch"
              THEN fetchWithTimeoutCatch([Answered(api, "timeout", <<>>) EXCEPT !.timer = "fired"],
                                         [name |-> "AbortError", message |-> <<"Aborted">>])
              ELSE [api EXCEPT !.timer = "fired"]
    /\ UNCHANGED <<hook, view, inflight, calls, lastCall, pads, screen, card>>

\* The response arrives while fetchWithTimeout awaits it: clearTimeout, return.
ResponseArrives(ok) ==
    /\ api.pc = "fetch"
    /\ api' = [Answered(api, IF ok THEN "ok" ELSE "status", <<>>) EXCEPT
                  !.timer = "cleared",
                  !.pc = "done",
                  !.result = [kind |-> "response", ok |-> ok]]
    /\ UNCHANGED <<hook, view, inflight, calls, lastCall, pads, screen, card>>

\* fetch rejects with a transport error while fetchWithTimeout awaits it.
TransportRejects ==
    /\ api.pc = "fetch"
    /\ api' = fetchWithTimeoutCatch(Answered(api, "transport", <<>>),
                                    [name |-> "TypeError",
                                     message |-> RequestError("any", "transport")])
    /\ UNCHANGED <<hook, view, inflight, calls, lastCall, pads, screen, card>>

\* The ids api.fetchLaunchpad is called with.
LaunchpadIds == {"p1", "p2"}

\* The timeouts fetchWithTimeout is called with (probe, default, search).
Timeouts == {5000, 10000, 15000}

\* One call of the client, with any arguments.
InitClient ==
    /\ InitHook
    /\ pads = NoPads
    /\ screen = NoScreen
    /\ card = NoCard
    /\ \E fn \in {"fetchLaunches", "checkApiHealth", "fetchLaunchpad", "fetchWithTimeout"} :
       \E page \in 1..MaxPage, limit \in Limits, query \in ClientQueries :
       \E id \in LaunchpadIds \cup {""}, timeout \in Timeouts :
          /\ fn # "fetchLaunches" => (page = 1 /\ limit = Limit /\ query = <<>>)
          /\ fn # "fetchLaunchpad" <=> id = ""
          /\ (fn = "checkApiHealth" => timeout = 5000)
          /\ (fn = "fetchLaunchpad" => timeout = 10000)
          /\ (fn = "fetchLaunches" => timeout = IF IsSearch(query) THEN 15000 ELSE 10000)
          /\ api = [fn |-> fn, page |-> page, limit |-> limit, query |-> query,
                    id |-> id, timeout |-> timeout, timer |-> "none",
                    pc |-> "start", requests |-> <<>>, caught |-> <<>>,
                    result |-> [kind |-> "pending"]]

NextClient ==
    \/ ClientCall
    \/ PrimaryAnswers
    \/ \E kind \in Failures : PrimaryFails(kind)
    \/ \E body \in SimpleBodies : FallbackAnswers(body)
    \/ \E kind \in Failures : FallbackFails(kind)
    \/ \E outcome \in {"ok"} \cup ProbeFailures : ProbeSettles(outcome)
    \/ \E rev \in 1..MaxRev : LaunchpadAnswers(rev)
    \/ \E kind \in Failures : LaunchpadFails(kind)
    \/ TimerFires
    \/ \E ok \in BOOLEAN : ResponseArrives(ok)
    \/ TransportRejects

SpecClient == InitClient /\ [][NextClient]_vars

\* Every request answers or hits its timeout: a call that can take a step takes one.
FairSpecClient == SpecClient /\ WF_vars(NextClient)

(* ------------------- the launchpad cache and useLaunchpad --------------- *)

\* Mounted components that use useLaunchpad.
NumHooks == 2

\* Calls of fetchLaunchpad (by the effect or by refetch) in one run.
MaxLookups == 4

\* The launchpadId arguments; '' is falsy.
PadIds == {"", "p1", "p2"}

\* useState<Launchpad | null>(null)
NoLaunchpad == [id |-> "null", rev |-> 0]

\* launchpadCache.set(launchpadId, data)
CacheSet(cache, launchpadId, data) ==
    [x \in DOMAIN cache \cup {launchpadId} |-> IF x = launchpadId THEN data ELSE cache[x]]

\* useLaunchpad.fetchLaunchpad of component h, up to its return or its await.
fetchLaunchpad_skipsCache(h) ==
    /\ pads.lookups < MaxLookups
    /\ LET launchpadId == pads.hooks[h].launchpadId
       IN  pads' =
             IF launchpadId = ""
             THEN [pads EXCEPT !.lookups = @ + 1,
                               !.last = [op |-> "lookup", hook |-> h, id |-> launchpadId]]
             ELSE [pads EXCEPT !.lookups = @ + 1,
                               !.last = [op |-> "lookup", hook |-> h, id |-> launchpadId],
                               !.hooks[h].loading = TRUE,
                               !.hooks[h].error = NoError,
                               !.requests[launchpadId] = @ + 1,
                               !.pending = Append(@, [hook |-> h, id |-> launchpadId])]
    /\ UNCHANGED <<hook, view, inflight, calls, lastCall, api, screen, card>>

fetchLaunchpad(h) ==
    /\ pads.lookups < MaxLookups
    /\ LET launchpadId == pads.hooks[h].launchpadId
       IN  pads' =
             IF launchpadId = ""
             THEN [pads EXCEPT !.lookups = @ + 1,
                               !.last = [op |-> "lookup", hook |-> h, id |-> launchpadId]]
             ELSE IF launchpadId \in DOMAIN pads.cache
             THEN [pads EXCEPT !.lookups = @ + 1,
                               !.last = [op |-> "lookup", hook |-> h, id |-> launchpadId],
                               !.hooks[h].launchpad = pads.cache[launchpadId]]
             ELSE [pads EXCEPT !.lookups = @ + 1,
                               !.last = [op |-> "lookup", hook |-> h, id |-> launchpadId],
                               !.hooks[h].loading = TRUE,
                               !.hooks[h].error = NoError,
                               !.requests[launchpadId] = @ + 1,
                               !.pending = Append(@, [hook |-> h, id |-> launchpadId])]
    /\ UNCHANGED <<hook, view, inflight, calls, lastCall, api, screen, card>>

\* await api.fetchLaunchpad(launchpadId) resolves with `data`: try, finally.
fetchLaunchpadResolved(i, rev) ==
    /\ i \in 1..Len(pads.pending)
    /\ LET h == pads.pending[i].hook
           launchpadId == pads.pending[i].id
           data == [id |-> launchpadId, rev |-> rev]
       IN  pads' = [pads EXCEPT !.pending = RemoveAt(@, i),
                                !.last = [op |-> "resolve", hook |-> h, id |-> launchpadId],
                                !.cache = CacheSet(@, launchpadId, data),
                                !.hooks[h].launchpad = data,
                                !.hooks[h].loading = FALSE]
    /\ UNCHANGED <<hook, view, inflight, calls, lastCall, api, screen, card>>

\* await api.fetchLaunchpad(launchpadId) rejects: catch, finally.
fetchLaunchpadRejected(i) ==
    /\ i \in 1..Len(pads.pending)
    /\ LET h == pads.pending[i].hook
           launchpadId == pads.pending[i].id
       IN  pads' = [pads EXCEPT !.pending = RemoveAt(@, i),
                                !.last = [op |-> "reject", hook |-> h, id |-> launchpadId],
                                !.hooks[h].error = LaunchpadError,
                                !.hooks[h].loading = FALSE]
    /\ UNCHANGED <<hook, view, inflight, calls, lastCall, api, screen, card>>

\* The components are mounted, each with a launchpadId; the cache is empty.
InitPad ==
    /\ InitHook
    /\ api = NoClient
    /\ screen = NoScreen
    /\ card = NoCard
    /\ \E ids \in [1..NumHooks -> PadIds] :
          pads = [cache |-> <<>>,
                  hooks |-> [h \in 1..NumHooks |->
                               [launchpadId |-> ids[h], launchpad |-> NoLaunchpad,
                                loading |-> FALSE, error |-> NoError]],
                  pending |-> <<>>,
                  requests |-> [id \in PadIds |-> 0],
                  lookups |-> 0,
                  last |-> [op |-> "none", hook |-> 1, id |-> ""]]

NextPad ==
    \/ \E h \in 1..NumHooks : fetchLaunchpad(h)
    \/ \E i \in 1..MaxLookups, rev \in 1..MaxRev : fetchLaunchpadResolved(i, rev)
    \/ \E i \in 1..MaxLookups : fetchLaunchpadRejected(i)

SpecPad == InitPad /\ [][NextPad]_vars

(* -------------- LaunchListScreen: the debounced search box -------------- *)

\* Changes of the search text in one run.
MaxChanges == 3

\* How long a run is watched, in steps of the clock.
MaxTicks == 6

\* The delay of the search timer, in ms.
Debounce == 500

\* The clock advances in half delays.
Tick == Debounce \div 2

\* What the user can have in the search box.
Texts == { <<>>, <<" ">>, <<"s">>, <<"s", "L">>, <<" ", "c", " ">> }

\* The debounce effect runs for searchText = text: the timer searchTimeoutRef
\* points to is cleared and a new one is set.
searchEffect_keepsTimer(sc, text) ==
    [sc EXCEPT !.timers = sc.timers \cup {[id |-> sc.nextId, text |-> text,
                                           due |-> sc.now + Debounce]},
               !.ref = sc.nextId,
               !.nextId = sc.nextId + 1]

searchEffect(sc, text) ==
    LET cleared == IF sc.ref # 0 THEN {t \in sc.timers : t.id # sc.ref} ELSE sc.timers
    IN  [sc EXCEPT !.timers = cleared \cup {[id |-> sc.nextId, text |-> text,
                                             due |-> sc.now + Debounce]},
                   !.ref = sc.nextId,
                   !.nextId = sc.nextId + 1]

\* onChangeText: setSearchText(text); the render that follows runs the effect.
handleSearch(text) ==
    /\ screen.mounted
    /\ screen.changes < MaxChanges
    /\ text # screen.searchText
    /\ screen' = searchEffect([screen EXCEPT !.searchText = text,
                                             !.changes = @ + 1,
                                             !.lastChange = screen.now], text)
    /\ UNCHANGED <<hook, view, inflight, calls, lastCall, api, pads, card>>

\* The callback of a timer that is due runs: search(trimmed text) or reset().
DebounceFires ==
    /\ \E t \in screen.timers :
          /\ t.due <= screen.now
          /\ LET call == [op |-> IF Trim(t.text) # <<>> THEN "search" ELSE "reset",
                          term |-> Trim(t.text),
                          text |-> t.text,
                          current |-> screen.searchText,
                          change |-> screen.changes,
                          quiet |-> screen.now - screen.lastChange]
             IN  screen' = [screen EXCEPT !.timers = @ \ {t}, !.log = Append(@, call)]
    /\ UNCHANGED <<hook, view, inflight, calls, lastCall, api, pads, card>>

\* Time passes, up to the next timer that is due.
ClockTick ==
    /\ screen.now < MaxTicks * Tick
    /\ \A t \in screen.timers : t.due > screen.now
    /\ screen' = [screen EXCEPT !.now = @ + Tick]
    /\ UNCHANGED <<hook, view, inflight, calls, lastCall, api, pads, card>>

\* The screen unmounts: the effect's cleanup clears the timer the ref points to.
Unmount ==
    /\ screen.mounted
    /\ screen' = [screen EXCEPT !.mounted = FALSE,
                                !.timers = IF screen.ref # 0
                                           THEN {t \in @ : t.id # screen.ref} ELSE @]
    /\ UNCHANGED <<hook, view, inflight, calls, lastCall, api, pads, card>>

\* The screen has mounted with an empty search box and its effect has run once.
InitScreen ==
    /\ InitHook
    /\ api = NoClient
    /\ pads = NoPads
    /\ card = NoCard
    /\ screen = searchEffect([mounted |-> TRUE, searchText |-> <<>>, timers |-> {},
                              ref |-> 0, nextId |-> 1, now |-> 0, lastChange |-> 0,
                              changes |-> 0, log |-> <<>>], <<>>)

NextScreen ==
    \/ \E text \in Texts : handleSearch(text)
    \/ DebounceFires
    \/ ClockTick
    \/ Unmount

SpecScreen == InitScreen /\ [][NextScreen]_vars

(* ------------------------------- MapCard -------------------------------- *)

\* The coordinates a launchpad record from the remote API may hold, in degrees.
Latitudes == {-91, -90, 28, 90, 91}
Longitudes == {-181, -180, -80, 180, 181}

\* The positions the device reports.
Locations == { [latitude |-> 52, longitude |-> 13], [latitude |-> -34, longitude |-> 151] }

\* useState<LocationState | null>(null)
NoLocation == [latitude |-> 0, longitude |-> 0, none |-> TRUE]

Platforms == {"ios", "android", "web"}

isValidCoordinate(lat, lng) == lat >= -90 /\ lat <= 90 /\ lng >= -180 /\ lng <= 180

\* The effect on [location, launchpad]: calculateDistance is called with the
\* position and the launchpad's coordinates when there is a position.
\* distanceCalls holds the arguments of the latest call, opened the latest URL.
distanceEffect(c) ==
    IF c.location # NoLocation
    THEN [c EXCEPT !.distanceCalls = {[lat1 |-> c.location.latitude,
                                       lon1 |-> c.location.longitude,
                                       lat2 |-> c.launchpad.latitude,
                                       lon2 |-> c.launchpad.longitude]}]
    ELSE c

\* useUserLocation delivers a position; the card renders and its effect runs.
LocationArrives(location) ==
    /\ card.location # location
    /\ card' = distanceEffect([card EXCEPT !.location = location])
    /\ UNCHANGED <<hook, view, inflight, calls, lastCall, api, pads, screen>>

\* The details screen passes another launchpad record; the effect runs.
LaunchpadChanges(latitude, longitude) ==
    /\ card.launchpad # [latitude |-> latitude, longitude |-> longitude]
    /\ card' = distanceEffect([card EXCEPT
                  !.launchpad = [latitude |-> latitude, longitude |-> longitude]])
    /\ UNCHANGED <<hook, view, inflight, calls, lastCall, api, pads, screen>>

\* The Directions button: an alert for coordinates out of range, else the
\* platform's directions URL is opened.
handleOpenMaps ==
    /\ card' = IF ~isValidCoordinate(card.launchpad.latitude, card.launchpad.longitude)
               THEN [card EXCEPT !.alerted = TRUE]
               ELSE [card EXCEPT !.opened =
                        {[maps |-> IF card.platform = "ios" THEN "apple" ELSE "google",
                          latitude |-> card.launchpad.latitude,
                          longitude |-> card.launchpad.longitude]}]
    /\ UNCHANGED <<hook, view, inflight, calls, lastCall, api, pads, screen>>

\* A MapCard has mounted with a launchpad record; no position is known yet.
InitMap ==
    /\ InitHook
    /\ api = NoClient
    /\ pads = NoPads
    /\ screen = NoScreen
    /\ \E latitude \in Latitudes, longitude \in Longitudes, platform \in Platforms :
          card = [mounted |-> TRUE, platform |-> platform,
                  launchpad |-> [latitude |-> latitude, longitude |-> longitude],
                  location |-> NoLocation, distanceCalls |-> {}, opened |-> {},
                  alerted |-> FALSE]

NextMap ==
    \/ \E location \in Locations : LocationArrives(location)
    \/ \E latitude \in Latitudes, longitude \in Longitudes : LaunchpadChanges(latitude, longitude)
    \/ handleOpenMaps

SpecMap == InitMap /\ [][NextMap]_vars

(* ------------------------------- claims -------------------------------- *)

\* No fetch is in flight.
Quiescent == inflight = <<>>

\* The terms the controller can fetch for: no filter, or a submitted term.
Queries == {<<>>} \cup Terms

\* The docs api.fetchLaunches can resolve with for page `page` of `query`.
PageDocs(query, page) ==
    { fetchLaunchesPrimary(page, Limit, query).docs,
      fetchLaunchesFallback(page, Limit, query).docs }

\* The concatenations of pages 1..n of `query`, each page as either path serves it.
RECURSIVE Concats(_, _)
Concats(query, n) ==
    IF n = 0 THEN { <<>> }
    ELSE { a \o d : a \in Concats(query, n - 1), d \in PageDocs(query, n) }

\* The response of the i-th fetch is applied to launches in this step.
Applied(i) == PrimarySucceeds(i) \/ FallbackSucceeds(i)

\* C1: a search(term) started while one loadNextPage() fetch is in flight wins:
\* when both responses have arrived (in either order, neither failing), launches
\* is exactly the page-1 result for the new term and currentPage is 1.
C1_SearchSupersedesLoadNextPage ==
    ( /\ Quiescent
      /\ lastCall.op = "search"
      /\ lastCall.during = <<"loadNextPage">>
      /\ error = NoError )
    => /\ launches \in PageDocs(searchQuery, 1)
       /\ currentPage = 1

\* C2: a reset() started while a search's fetch is in flight wins: when both
\* responses have arrived (in either order, neither failing), the search term is
\* empty and launches is the unfiltered page-1 result.
C2_ResetSupersedesSearch ==
    ( /\ Quiescent
      /\ lastCall.op = "reset"
      /\ lastCall.during = <<"search">>
      /\ error = NoError )
    => /\ searchQuery = <<>>
       /\ launches \in PageDocs(<<>>, 1)

\* C3: a loadNextPage() called while the fetch of an earlier loadNextPage() is
\* in flight issues no fetch: two loadNextPage fetches are never in flight together.
C3_OneLoadNextPageInFlight ==
    \A i, j \in 1..Len(inflight) :
        (inflight[i].origin = "loadNextPage" /\ inflight[j].origin = "loadNextPage")
        => i = j

\* C4: at most one in-flight fetch affects launches at a time: a response is
\* never applied to launches when the response of a fetch that was in flight
\* beside it has been applied too.
C4_OneFetchAffectsItems ==
    [][\A i \in 1..Len(inflight) : Applied(i) => ~inflight[i].peerApplied]_vars

\* The fetch issued by this step (the newest in flight afterwards).
Issued == inflight'[Len(inflight')]

\* C5: reset() leaves the search term empty, and a refresh() or loadNextPage()
\* that follows a reset fetches with an empty query.
C5_ResetClearsSearchTerm ==
    [][ /\ reset => searchQuery' = <<>>
        /\ ( /\ lastCall.op = "reset"
             /\ refresh \/ loadNextPage
             /\ Len(inflight') = Len(inflight) + 1 )
           => Issued.query = <<>> ]_vars

\* C6: once the controller has loaded and no fetch is in flight (none having
\* failed since the last one started), launches is pages 1..currentPage of one
\* term, in order, each page once.
C6_ItemsArePagesOfOneTerm ==
    ( /\ Quiescent
      /\ lastCall.op # "none"
      /\ error = NoError )
    => \E query \in Queries : launches \in Concats(query, currentPage)

\* C7: loadNextPage() does nothing when hasNextPage is false or a fetch is in
\* flight; otherwise it issues one fetch for currentPage + 1 with the current
\* search term and leaves the list state alone, and the response of a
\* loadNextPage fetch appends its docs and sets currentPage to its page.
C7_LoadNextPageFrame ==
    [][ /\ loadNextPage =>
              IF ~hasNextPage \/ inflight # <<>>
              THEN UNCHANGED <<hook, inflight>>
              ELSE /\ Len(inflight') = 1
                   /\ Issued.page = currentPage + 1
                   /\ Issued.query = searchQuery
                   /\ UNCHANGED <<launches, currentPage, hasNextPage>>
        /\ \A i \in 1..Len(inflight) :
              (inflight[i].origin = "loadNextPage" /\ Applied(i))
              => /\ \E d \in PageDocs(inflight[i].query, inflight[i].page) :
                        launches' = launches \o d
                 /\ currentPage' = inflight[i].page ]_vars

\* C8: right after search(term) the term is stored, the list is empty, on page 1
\* with no next page, and a page-1 fetch for term is in flight; when that fetch
\* succeeds with nothing else in flight and no other operation started, launches
\* is a page-1 result for term and currentPage is 1.
C8_SearchLoadsPageOne ==
    /\ (lastCall.op = "search" /\ Len(inflight) = Len(lastCall.during) + 1)
       => /\ searchQuery \in Terms
          /\ launches = <<>>
          /\ currentPage = 1
          /\ hasNextPage = FALSE
          /\ inflight[Len(inflight)].origin = "search"
          /\ inflight[Len(inflight)].page = 1
          /\ inflight[Len(inflight)].query = searchQuery
    /\ (lastCall.op = "search" /\ lastCall.during = <<>> /\ Quiescent /\ error = NoError)
       => /\ launches \in PageDocs(searchQuery, 1)
          /\ currentPage = 1

\* A search that ran alone has succeeded and filled the list.
C8_Witness ==
    /\ lastCall.op = "search"
    /\ lastCall.during = <<>>
    /\ Quiescent
    /\ error = NoError
    /\ searchQuery \in Terms
    /\ launches # <<>>

\* C9: when the fetch of a loadNextPage() that ran alone has failed, launches,
\* currentPage and hasNextPage are what they were before the call, error holds
\* the failure's message and loading is false.
C9_FailedLoadNextPageKeepsItems ==
    ( /\ lastCall.op = "loadNextPage"
      /\ lastCall.during = <<>>
      /\ Quiescent
      /\ error # NoError )
    => /\ <<launches, currentPage, hasNextPage>> = lastCall.before
       /\ error \in {FetchFailed, ApiUnavailable}
       /\ loading = FALSE

\* A loadNextPage() that ran alone has failed with a non-empty list accumulated.
C9_Witness ==
    /\ lastCall.op = "loadNextPage"
    /\ lastCall.during = <<>>
    /\ Quiescent
    /\ error # NoError
    /\ launches # <<>>

\* C10: refreshing is true exactly while a refresh() call is in progress, that
\* is, while the fetch of some refresh() has not settled.
C10_RefreshingWhileRefreshInProgress ==
    refreshing <=> (\E i \in 1..Len(inflight) : inflight[i].origin = "refresh")

(* ------------------------- claims on the client ------------------------- *)

\* How many requests of the call went to `endpoint`.
CountRequests(endpoint) ==
    Cardinality({k \in DOMAIN api.requests : api.requests[k].endpoint = endpoint})

\* The k-th request of the call failed.
RequestFailed(k) == k <= Len(api.requests) /\ api.requests[k].outcome \in Failures

\* fetchLaunches has issued its primary request.
FetchLaunchesRunning == api.fn = "fetchLaunches" /\ api.pc # "start"

\* C11: the primary request of fetchLaunches is the search POST or the list GET;
\* exactly one request to the simple endpoint follows it when it failed (by
\* status, timeout, transport error or unreadable body) and none otherwise; when
\* that fallback request succeeds the call returns a page, not an error.
C11_FallbackExactlyOnPrimaryFailure ==
    FetchLaunchesRunning =>
        /\ api.requests[1].endpoint = IF IsSearch(api.query) THEN "query" ELSE "list"
        /\ CountRequests("simple") = IF RequestFailed(1) THEN 1 ELSE 0
        /\ RequestFailed(1) => api.requests[2].endpoint = "simple"
        /\ (Len(api.requests) >= 2 /\ api.requests[2].outcome = "ok")
               => api.result.kind = "page"
        /\ api.requests[1].outcome = "ok" => Len(api.requests) = 1

C11_Witness ==
    /\ FetchLaunchesRunning
    /\ api.requests[1].outcome = "timeout"
    /\ Len(api.requests) = 2
    /\ api.requests[2].outcome = "ok"
    /\ api.result.kind = "page"

\* The parts of `message` hold the message of `cause`.
Carries(message, cause) ==
    \E k \in 0..(Len(message) - Len(cause)) : SubSeq(message, k + 1, k + Len(cause)) = cause

\* The primary request and the fallback request of fetchLaunches both failed,
\* and the call has ended.
BothFailed == FetchLaunchesRunning /\ RequestFailed(1) /\ RequestFailed(2) /\ api.pc = "done"

\* C12: when the primary and the fallback request both failed, one health probe
\* was issued after them; the call fails with ApiUnavailable exactly when the
\* probe failed, and otherwise with FetchFailed whose message carries the
\* message of an error caught on the way (the underlying cause).
C12_ProbeDecidesErrorWithCause ==
    BothFailed =>
        /\ CountRequests("health") = 1
        /\ api.requests[3].endpoint = "health"
        /\ api.result.kind = "error"
        /\ api.result.message = <<ApiUnavailable>> <=> api.requests[3].outcome # "ok"
        /\ api.requests[3].outcome = "ok" =>
               /\ api.result.message[1] = FetchFailed
               /\ \E k \in DOMAIN api.caught : Carries(api.result.message, api.caught[k])

\* C13 as stated: fetchLaunches rejects only when the primary request, the
\* fallback request and the health probe have all failed.
C13_ErrorOnlyAfterProbeFails ==
    (api.fn = "fetchLaunches" /\ api.result.kind = "error") =>
        /\ RequestFailed(1)
        /\ RequestFailed(2)
        /\ Len(api.requests) = 3
        /\ api.requests[3].outcome \in ProbeFailures

\* C13, amended: fetchLaunches rejects only when the primary request and the
\* fallback request have both failed and the health probe has been answered,
\* whatever the probe's answer.
C13_ErrorOnlyAfterBothFail ==
    (api.fn = "fetchLaunches" /\ api.result.kind = "error") =>
        /\ RequestFailed(1)
        /\ RequestFailed(2)
        /\ Len(api.requests) = 3
        /\ api.requests[3].endpoint = "health"
        /\ api.requests[3].outcome \in {"ok"} \cup ProbeFailures

C13_Witness ==
    /\ api.fn = "fetchLaunches"
    /\ api.result.kind = "error"
    /\ api.result.message = <<FetchFailed>>
    /\ api.requests[3].outcome = "ok"

\* fetchLaunches returned from its primary request.
PrimaryPath == FetchLaunchesRunning /\ api.requests[1].outcome = "ok"

\* C14: on the primary path hasNextPage is true exactly when the number of docs
\* returned for the page equals the requested limit.
C14_PrimaryHasNextPage ==
    PrimaryPath =>
        (api.result.value.hasNextPage <=> Len(api.result.value.docs) = api.limit)

C14_Witness ==
    /\ PrimaryPath
    /\ api.limit = Limit
    /\ Len(api.result.value.docs) = Limit
    /\ api.result.value.hasNextPage

\* fetchLaunches returned from the fallback request.
FallbackPath ==
    FetchLaunchesRunning /\ Len(api.requests) = 2 /\ api.requests[2].outcome = "ok"

\* t is q without its leading and trailing blanks.
IsTrimOf(t, q) ==
    \E a, b \in 0..Len(q) :
        /\ a + Len(t) + b = Len(q)
        /\ \A j \in 1..a : q[j] = " "
        /\ \A j \in 1..b : q[Len(q) + 1 - j] = " "
        /\ \A j \in 1..Len(t) : t[j] = q[a + j]
        /\ t # <<>> => (t[1] # " " /\ t[Len(t)] # " ")

Trimmed(q) ==
    CHOOSE t \in {SubSeq(q, i, j) : i \in 1..(Len(q) + 1), j \in 0..Len(q)} : IsTrimOf(t, q)

\* term occurs in name as a contiguous substring, letter case ignored.
ContainsIgnoringCase(name, term) ==
    \E k \in 0..(Len(name) - Len(term)) :
        \A j \in 1..Len(term) : Lower(name[k + j]) = Lower(term[j])

\* The positions of `list` the query keeps: all of them when the query is empty
\* or blank, else those whose launch name contains the trimmed query.
Kept(list, query) ==
    {k \in DOMAIN list :
        Trimmed(query) = <<>> \/ ContainsIgnoringCase(Name(list[k]), Trimmed(query))}

\* C15: on the fallback path hasNextPage is true exactly when the number of
\* launches the filter keeps is strictly greater than page*limit, and totalDocs
\* is that number.
C15_FallbackHasNextPage ==
    FallbackPath =>
        LET n == Cardinality(Kept(api.requests[2].body, api.query))
        IN  /\ api.result.value.hasNextPage <=> n > api.page * api.limit
            /\ api.result.value.totalDocs = n

C15_Witness ==
    /\ FallbackPath
    /\ IsSearch(api.query)
    /\ api.page = 2
    /\ api.result.value.hasNextPage
    /\ api.result.value.totalDocs < Len(api.requests[2].body)

\* fetchLaunches returned from the search request.
SearchPath == PrimaryPath /\ api.requests[1].endpoint = "query"

\* C16: on the search path the docs returned are the elements of the response's
\* docs at the 0-based indices (page-1)*limit up to, not including, page*limit,
\* in the response's order.
C16_SearchWindow ==
    SearchPath =>
        LET body == api.requests[1].body
            docs == api.result.value.docs
            first == (api.page - 1) * api.limit
        IN  /\ Len(docs) = Cardinality({k \in 0..(Len(body) - 1) :
                                           first <= k /\ k < api.page * api.limit})
            /\ \A j \in 1..Len(docs) : docs[j] = body[first + j]

C16_Witness ==
    /\ SearchPath
    /\ api.page = 2
    /\ api.limit = 10
    /\ Len(api.requests[1].body) = 20
    /\ api.result.value.docs = SubSeq(api.requests[1].body, 11, 20)

\* C17: on the fallback path the docs returned are the launches of the simple
\* list that the query keeps (name contains the trimmed query, case ignored; a
\* blank query keeps all), in the simple list's order, cut to the window
\* [(page-1)*limit, page*limit) of the kept launches.
C17_FallbackFilter ==
    FallbackPath =>
        LET body == api.requests[2].body
            docs == api.result.value.docs
            kept == Kept(body, api.query)
            rank(k) == Cardinality({j \in kept : j < k})
            first == (api.page - 1) * api.limit
            window == {k \in kept : first <= rank(k) /\ rank(k) < api.page * api.limit}
        IN  /\ Len(docs) = Cardinality(window)
            /\ \A k \in window : docs[rank(k) - first + 1] = body[k]

C17_Witness ==
    /\ FallbackPath
    /\ api.query = <<"s", "L">>
    /\ api.page = 3
    /\ api.limit = 2
    /\ api.requests[2].body = SimpleList
    /\ api.result.value.docs = <<6, 7>>

\* C20: checkApiHealth never throws; it makes one probe request, returns true
\* when the probe got a 2xx and false when it got another status, timed out or
\* failed in transport.
C20_HealthProbeIsBoolean ==
    api.fn = "checkApiHealth" =>
        /\ api.result.kind # "error"
        /\ api.pc = "done" =>
               /\ api.result.kind = "boolean"
               /\ Len(api.requests) = 1
               /\ api.requests[1].endpoint = "health"
               /\ api.result.value <=> api.requests[1].outcome = "ok"

C20_Witness ==
    /\ api.fn = "checkApiHealth"
    /\ api.pc = "done"
    /\ api.requests[1].outcome = "status"
    /\ api.result.value = FALSE

(* --------------------- claims on the launchpad cache -------------------- *)

\* The step is a call of useLaunchpad.fetchLaunchpad.
LookupStep == pads'.lookups = pads.lookups + 1

\* C18: a lookup issues a network fetch for id only when id is absent from the
\* cache at the call: no step raises the number of fetches for a cached id; a
\* lookup of a cached id hands the component the stored record and fetches
\* nothing; a lookup of an uncached (non-empty) id issues one fetch; a failed
\* fetch leaves the cache as it was.
C18_FetchOnlyWhenAbsent ==
    [][ /\ \A id \in PadIds :
              pads'.requests[id] > pads.requests[id] => id \notin DOMAIN pads.cache
        /\ LookupStep =>
              LET id == pads'.last.id
                  h == pads'.last.hook
              IN  IF id \in DOMAIN pads.cache
                  THEN /\ pads'.hooks[h].launchpad = pads.cache[id]
                       /\ pads'.requests = pads.requests
                  ELSE id # "" => pads'.requests[id] = pads.requests[id] + 1
        /\ (Len(pads'.pending) < Len(pads.pending) /\ pads'.last.op = "reject")
              => pads'.cache = pads.cache
      ]_vars

\* A lookup of a cached id has just returned the stored record, after an
\* earlier fetch of the id failed and a later one succeeded.
C18_Witness ==
    /\ pads.lookups >= 3
    /\ pads.last.op = "lookup"
    /\ pads.last.id \in DOMAIN pads.cache
    /\ pads.requests[pads.last.id] = 2
    /\ pads.pending = <<>>
    /\ pads.hooks[pads.last.hook].launchpad = pads.cache[pads.last.id]
    /\ \E h \in 1..NumHooks :
          pads.hooks[h].launchpadId = pads.last.id /\ pads.hooks[h].error # NoError

\* C19: once an id is mapped in the launchpad cache, no step removes its entry
\* or changes its value.
C19_CacheEntriesNeverChange ==
    [][ \A id \in DOMAIN pads.cache :
            id \in DOMAIN pads'.cache /\ pads'.cache[id] = pads.cache[id] ]_vars

\* The message of the Error fetchWithTimeout throws when its timer aborted the request.
TimeoutError == <<"Request timeout - please check your internet connection">>

\* C21: fetchLaunchpad(id) issues one request, to the launchpad endpoint, and no
\* other; when the request fails (status, timeout, transport error, unreadable
\* body) the call fails with the launchpad error whose message carries the
\* message of the failure, and a record is returned only from a 2xx response.
C21_LaunchpadOneRequestWrappedError ==
    (api.fn = "fetchLaunchpad" /\ api.pc # "start") =>
        /\ Len(api.requests) = 1
        /\ api.requests[1].endpoint = "launchpad"
        /\ api.requests[1].term = <<api.id>>
        /\ RequestFailed(1) =>
               /\ api.result.kind = "error"
               /\ api.result.message[1] = LaunchpadError
               /\ Len(api.caught) = 1
               /\ Carries(api.result.message, api.caught[1])
        /\ api.requests[1].outcome = "timeout" => Carries(api.result.message, TimeoutError)
        /\ api.result.kind = "record" =>
               /\ api.requests[1].outcome = "ok"
               /\ api.result.value.id = api.id

C21_Witness ==
    /\ api.fn = "fetchLaunchpad"
    /\ api.requests # <<>>
    /\ api.requests[1].outcome = "status"
    /\ api.result.kind = "error"
    /\ api.result.message = <<LaunchpadError, "HTTP error! status: ", "status">>

\* C22: a fetchWithTimeout call whose timer fired while the request was pending
\* fails with the timeout Error, and only such a call does: a call whose
\* response arrived first returns the response (2xx or not), a call whose fetch
\* failed in transport fails with that error, and neither the message of a
\* status error nor that of a transport error is the timeout message.
C22_TimeoutIsDistinct ==
    (api.fn = "fetchWithTimeout" /\ api.pc = "done") =>
        /\ api.timer = "fired" <=>
               (api.result.kind = "error" /\ api.result.message = TimeoutError)
        /\ api.requests[1].outcome = "timeout" <=> api.timer = "fired"
        /\ api.requests[1].outcome \in {"ok", "status"} =>
               (api.result.kind = "response" /\ api.timer = "cleared")
        /\ api.requests[1].outcome = "transport" =>
               (api.result.kind = "error" /\ api.result.message # TimeoutError)
        /\ \A endpoint \in {"query", "list", "launchpad"} :
               RequestError(endpoint, "status") # TimeoutError

C22_Witness ==
    /\ api.fn = "fetchWithTimeout"
    /\ api.timer = "fired"
    /\ api.requests[1].outcome = "timeout"
    /\ api.result.kind = "error"
    /\ api.result.message = TimeoutError

(* ---------------------- claims on the search box ------------------------ *)

\* C23: at most one search timer is pending; every call the screen makes to the
\* controller comes at least 500 ms after the last change of the search text,
\* at most once per change, with the text the box holds then: search(trimmed
\* text) when that text is not blank, reset() when it is; search is never
\* called with an empty term.
C23_DebouncedSearch ==
    /\ Cardinality(screen.timers) <= 1
    /\ \A k \in DOMAIN screen.log :
          LET c == screen.log[k]
          IN  /\ c.quiet >= Debounce
              /\ c.text = c.current
              /\ IF Trimmed(c.current) # <<>>
                 THEN c.op = "search" /\ c.term = Trimmed(c.current)
                 ELSE c.op = "reset"
              /\ c.op = "search" => c.term # <<>>
    /\ \A j, k \in DOMAIN screen.log :
          j # k => screen.log[j].change # screen.log[k].change

\* After a burst of two changes ending in " c ", search("c") was called.
C23_Witness ==
    /\ screen.changes >= 2
    /\ screen.log # <<>>
    /\ screen.log[Len(screen.log)].op = "search"
    /\ screen.log[Len(screen.log)].term = <<"c">>
    /\ screen.log[Len(screen.log)].change = screen.changes
    /\ screen.lastChange > 0
    /\ \A k \in DOMAIN screen.log : screen.log[k].change \in {0, screen.changes}

(* ------------------------ claims on the map card ------------------------ *)

\* A coordinate within the ranges of latitude and longitude.
InRange(latitude, longitude) ==
    -90 <= latitude /\ latitude <= 90 /\ -180 <= longitude /\ longitude <= 180

\* C24: every coordinate that was passed to the distance calculation, and every
\* coordinate a directions URL was opened for, is within range.
C24_OnlyValidCoordinatesUsed ==
    /\ \A d \in card.distanceCalls : InRange(d.lat1, d.lon1) /\ InRange(d.lat2, d.lon2)
    /\ \A u \in card.opened : InRange(u.latitude, u.longitude)

(* ------------------- further claims on the controller ------------------- *)

\* C25: loading is true in every state in which a fetchPage call is in flight,
\* and error is null once the most recently started fetchPage call has
\* succeeded: the step that applies its response leaves error null.
C25_LoadingAndErrorTrackFetches ==
    /\ [](inflight # <<>> => loading)
    /\ [][(inflight # <<>> /\ Applied(Len(inflight))) => error' = NoError]_vars

\* No launch id occurs twice in s.
NoDuplicates(s) == \A i, j \in DOMAIN s : s[i] = s[j] => i = j

\* C26: after the initial load and one loadNextPage() that ran alone and
\* succeeded, for one term and an unchanging data set, launches holds no launch
\* id twice, whichever path served each page.
C26_NoDuplicateItems ==
    ( /\ Quiescent
      /\ calls = 2
      /\ lastCall.op = "loadNextPage"
      /\ lastCall.during = <<>>
      /\ error = NoError )
    => NoDuplicates(launches)

\* C27: while the controller holds a search term, launches never holds more
\* than 2*limit launches, no page beyond the third is fetched, and after a
\* third page nothing more is offered.
C27_SearchModeCapped ==
    searchQuery # <<>> =>
        /\ Len(launches) <= 2 * Limit
        /\ currentPage <= 3
        /\ currentPage = 3 => ~hasNextPage

(* ------------------- further claims on the client ----------------------- *)

\* The requests of a fetchLaunches call so far are a prefix of: the primary
\* request, the fallback request, the health probe.
RequestsInOrder ==
    /\ Len(api.requests) <= 3
    /\ \A k \in DOMAIN api.requests :
          api.requests[k].endpoint \in
              (CASE k = 1 -> {"query", "list"} [] k = 2 -> {"simple"} [] OTHER -> {"health"})

\* C28: a fetchLaunches call issues at most three requests, in the order
\* primary, fallback, health probe, each at most once; and, every request
\* answering or timing out, the call eventually settles with a page or an error.
C28_FetchLaunchesSettles ==
    /\ [](api.fn = "fetchLaunches" => RequestsInOrder)
    /\ (api.fn = "fetchLaunches")
          ~> (api.pc = "done" /\ api.result.kind \in {"page", "error"})

C28_Witness ==
    /\ api.fn = "fetchLaunches"
    /\ api.pc = "done"
    /\ Len(api.requests) = 3
    /\ api.requests[2].outcome = "timeout"
    /\ api.result.kind = "error"

====
